---- MODULE Spec2Model ----
(***************************************************************************)
(* Model of good_morning (src/src/main.rs): a one-shot task that launches  *)
(* `ollama serve`, reads its configuration from the environment, fetches   *)
(* the weather, asks the local model for a greeting, posts it to a chat    *)
(* channel and terminates the subprocess.                                  *)
(*                                                                         *)
(* Text is modelled as a sequence of one-character strings, u64 and i32    *)
(* values as integers.                                                     *)
(***************************************************************************)
EXTENDS Integers, Sequences, FiniteSets, TLC

(***************************************************************************)
(* Bounds of the model                                                     *)
(***************************************************************************)
\* longest GOOD_MORNING_MEMBERS text enumerated exhaustively
MaxLen == 7
\* longest recipient list enumerated for format_message
MaxMembers == 2
\* largest recipient identifier enumerated for format_message
MaxId == 12
\* weather codes -MaxCode .. MaxCode + 100 are enumerated
MaxCode == 5

(***************************************************************************)
(* Text helpers                                                            *)
(***************************************************************************)
None == [some |-> FALSE]
Some(v) == [some |-> TRUE, val |-> v]

Digit == {"0", "1", "2", "3", "4", "5", "6", "7", "8", "9"}

DigitVal(c) ==
    CASE c = "0" -> 0 [] c = "1" -> 1 [] c = "2" -> 2 [] c = "3" -> 3
      [] c = "4" -> 4 [] c = "5" -> 5 [] c = "6" -> 6 [] c = "7" -> 7
      [] c = "8" -> 8 [] c = "9" -> 9

DigitChar(d) ==
    CASE d = 0 -> "0" [] d = 1 -> "1" [] d = 2 -> "2" [] d = 3 -> "3"
      [] d = 4 -> "4" [] d = 5 -> "5" [] d = 6 -> "6" [] d = 7 -> "7"
      [] d = 8 -> "8" [] d = 9 -> "9"

\* u64::MAX = 18446744073709551615, as decimal digits
U64MaxDigits ==
    <<"1","8","4","4","6","7","4","4","0","7","3","7","0","9","5","5","1","6","1","5">>

RECURSIVE StripZeros(_)
StripZeros(ds) ==
    IF ds # <<>> /\ Head(ds) = "0" THEN StripZeros(Tail(ds)) ELSE ds

RECURSIVE LexGreater(_, _)
\* a > b for digit sequences of equal length
LexGreater(a, b) ==
    IF a = <<>> THEN FALSE
    ELSE IF DigitVal(Head(a)) # DigitVal(Head(b))
         THEN DigitVal(Head(a)) > DigitVal(Head(b))
         ELSE LexGreater(Tail(a), Tail(b))

\* the checked multiply/add of the integer parser overflows exactly when the
\* decimal value exceeds u64::MAX
OverflowsU64(ds) ==
    LET sig == StripZeros(ds) IN
    \/ Len(sig) > Len(U64MaxDigits)
    \/ Len(sig) = Len(U64MaxDigits) /\ LexGreater(sig, U64MaxDigits)

RECURSIVE DecValue(_, _)
DecValue(ds, acc) ==
    IF ds = <<>> THEN acc ELSE DecValue(Tail(ds), acc * 10 + DigitVal(Head(ds)))

\* id_str.parse::<u64>(): an optional leading '+', then one or more ASCII
\* digits, no surrounding whitespace, value at most u64::MAX
ParseU64(s) ==
    LET ds == IF s # <<>> /\ Head(s) = "+" THEN Tail(s) ELSE s IN
    IF ds = <<>> THEN None
    ELSE IF \E i \in 1..Len(ds) : ds[i] \notin Digit THEN None
    ELSE IF OverflowsU64(ds) THEN None
    ELSE Some(DecValue(ds, 0))

RECURSIVE DisplayU64(_)
\* format!("{}", id) of an unsigned integer
DisplayU64(n) ==
    IF n < 10 THEN <<DigitChar(n)>>
    ELSE Append(DisplayU64(n \div 10), DigitChar(n % 10))

\* positions of the separator in a text
SepPositions(s, sep) == {i \in 1..Len(s) : s[i] = sep}

\* position of the j-th separator; 0 and Len(s) + 1 bracket the text
SepAt(s, sep, j) ==
    IF j = 0 THEN 0
    ELSE IF j > Cardinality(SepPositions(s, sep)) THEN Len(s) + 1
    ELSE CHOOSE i \in SepPositions(s, sep) :
             Cardinality({p \in SepPositions(s, sep) : p <= i}) = j

\* str::split(sep): k separators give k + 1 tokens, empty tokens included;
\* the j-th token lies between separators j - 1 and j
Split(s, sep) ==
    [j \in 1..(Cardinality(SepPositions(s, sep)) + 1) |->
        SubSeq(s, SepAt(s, sep, j - 1) + 1, SepAt(s, sep, j) - 1)]

\* slice::chunks(n): consecutive chunks of n elements, the last one shorter
\* when the length is not a multiple of n
Chunks(xs, n) ==
    [k \in 1..((Len(xs) + n - 1) \div n) |->
        SubSeq(xs, (k - 1) * n + 1, IF k * n < Len(xs) THEN k * n ELSE Len(xs))]

RECURSIVE Join(_, _)
\* [String]::join(sep)
Join(xs, sep) ==
    IF xs = <<>> THEN <<>>
    ELSE IF Len(xs) = 1 THEN xs[1]
    ELSE xs[1] \o sep \o Join(Tail(xs), sep)

Whitespace == {" ", "\n", "\t", "\r"}

RECURSIVE TrimStart(_)
TrimStart(s) ==
    IF s # <<>> /\ Head(s) \in Whitespace THEN TrimStart(Tail(s)) ELSE s

RECURSIVE TrimEnd(_)
TrimEnd(s) ==
    IF s # <<>> /\ s[Len(s)] \in Whitespace
    THEN TrimEnd(SubSeq(s, 1, Len(s) - 1)) ELSE s

\* str::trim()
Trim(s) == TrimEnd(TrimStart(s))

(***************************************************************************)
(* Pure functions of the program                                           *)
(***************************************************************************)
\* the closure of filter_map: a two-token chunk whose second token parses
\* gives a recipient, anything else gives nothing
MemberOfChunk(chunk) ==
    IF Len(chunk) = 2
    THEN LET id == ParseU64(chunk[2]) IN
         IF id.some THEN Some(<<chunk[1], id.val>>) ELSE None
    ELSE None

RECURSIVE FilterMapFromAbort(_, _)
\* a collect that stops at the first chunk that gives nothing
FilterMapFromAbort(chunks, i) ==
    IF i > Len(chunks) THEN <<>>
    ELSE IF MemberOfChunk(chunks[i]).some
         THEN <<MemberOfChunk(chunks[i]).val>> \o FilterMapFromAbort(chunks, i + 1)
         ELSE <<>>

RECURSIVE FilterMapFrom(_, _)
FilterMapFrom(chunks, i) ==
    IF i > Len(chunks) THEN <<>>
    ELSE (IF MemberOfChunk(chunks[i]).some
          THEN <<MemberOfChunk(chunks[i]).val>> ELSE <<>>)
         \o FilterMapFrom(chunks, i + 1)

\* .filter_map(..).collect()
FilterMapMembers(chunks) == FilterMapFrom(chunks, 1)

\* parse_members on the value of GOOD_MORNING_MEMBERS (None: not set)
parse_members(members_var) ==
    IF members_var.some
    THEN [ok |-> TRUE, val |-> FilterMapMembers(Chunks(Split(members_var.val, ","), 2))]
    ELSE [ok |-> FALSE, val |-> <<>>]

\* the table with exclusive upper ends (1..3, 51..57, ...)
MapWeatherCodeExclusive(code) ==
    CASE code = 0 -> "clear sky"
      [] code \in 1..2 -> "partly cloudy"
      [] code \in {45, 48} -> "fog"
      [] code \in 51..56 -> "drizzle"
      [] code \in 61..66 -> "rain"
      [] code \in 71..76 -> "snow"
      [] code \in 80..81 -> "showers"
      [] code \in {95, 96, 99} -> "thunderstorm"
      [] OTHER -> "unknown weather"

map_weather_code_to_description(code) ==
    CASE code = 0 -> "clear sky"
      [] code \in 1..3 -> "partly cloudy"
      [] code \in {45, 48} -> "fog"
      [] code \in 51..57 -> "drizzle"
      [] code \in 61..67 -> "rain"
      [] code \in 71..77 -> "snow"
      [] code \in 80..82 -> "showers"
      [] code \in {95, 96, 99} -> "thunderstorm"
      [] OTHER -> "unknown weather"

\* the mentions collected back to front
MentionsReversed(members) ==
    [i \in 1..Len(members) |->
        <<"<", "@">> \o DisplayU64(members[Len(members) + 1 - i][2]) \o <<">">>]

Mentions(members) ==
    [i \in 1..Len(members) |-> <<"<", "@">> \o DisplayU64(members[i][2]) \o <<">">>]

format_message(members, generated_message) ==
    generated_message \o <<"\n">> \o Join(Mentions(members), <<" ">>)

(***************************************************************************)
(* Inputs                                                                  *)
(***************************************************************************)
Alice == <<"A", "l", "i", "c", "e">>
Bob == <<"B", "o", "b">>
AliceBobText ==
    Alice \o <<",", "1", "2", "3", ",">> \o Bob \o <<",", "4", "5", "6">>
AliceAbcText == Alice \o <<",", "a", "b", "c">>
GoodMorning == <<"G", "o", "o", "d", " ", "m", "o", "r", "n", "i", "n", "g", "!">>

\* values GOOD_MORNING_DISCORD_TOKEN can have: not set, usable as a header
\* value, or set but rejected by HeaderValue::from_str
TokenValues == {"missing", "valid", "invalid"}
\* GOOD_MORNING_MEMBERS values the pipeline is run with
PipelineMembers == {None, Some(AliceBobText), Some(AliceAbcText)}
Environments ==
    [token : TokenValues, channel : {"missing", "set"}, members : PipelineMembers]

\* answers of the weather API: a reading, or a transport / JSON error
WeatherAnswers ==
    {[ok |-> FALSE]} \cup
    {[ok |-> TRUE, temperature |-> t, weathercode |-> c] :
        t \in {"21.5", "-3"}, c \in {0, 63, 14}}
\* answers of the generation API: the raw response text, or an error
GenerateAnswers ==
    {[ok |-> FALSE]} \cup
    {[ok |-> TRUE, response |-> r] :
        r \in {GoodMorning, <<" ", "\n">> \o GoodMorning \o <<"\n">>}}
\* answers of the chat API: a 2xx status, a non-2xx status, no answer at all
SendAnswers == {"2xx", "status_error", "transport_error"}

\* the fallback phrase of run (a Russian sentence in the source,
\* transliterated here)
WeatherFallback == <<"ne udalos' poluchit' dannye o pogode">>

(***************************************************************************)
(* State                                                                   *)
(***************************************************************************)
VARIABLES
    pc,                 \* position of the main task, inside main and run
    env,                \* the process environment after dotenv
    members,            \* run: members
    weather_info,       \* run: weather_info
    prompt,             \* generate_greeting: what the request carries
    generated_message,  \* run: generated_message
    final_message,      \* run: final_message
    run_result,         \* main: run_result ("pending" until run returns)
    serve_process,      \* the child: "none", "running", "exited", "reaped"
    listener,           \* position of the spawned signal task
    shutdown,           \* the oneshot channel: "open", "sent", "closed"
    selected,           \* branch of select! that was taken
    exit_code,          \* exit status of the process, NotExited while it runs
    trace,              \* operations performed so far, in order
    fnPc, arg, ret      \* a single call of one pure function

vars == <<pc, env, members, weather_info, prompt, generated_message,
          final_message, run_result, serve_process, listener, shutdown,
          selected, exit_code, trace, fnPc, arg, ret>>

NotExited == -1
ExitSuccess == 0
ExitFailure == 1
ExitPanic == 101

fnVars == <<fnPc, arg, ret>>
runLocals == <<members, weather_info, prompt, generated_message, final_message>>
listenerVars == <<listener, shutdown>>

Count(ev) == Cardinality({i \in 1..Len(trace) : trace[i] = ev})
Did(ev) == \E i \in 1..Len(trace) : trace[i] = ev
\* some occurrence of a precedes some occurrence of b
Precedes(a, b) ==
    \E i, j \in 1..Len(trace) : i < j /\ trace[i] = a /\ trace[j] = b

PipelineInit ==
    /\ pc = "dotenv"
    /\ env \in Environments
    /\ members = <<>>
    /\ weather_info = <<>>
    /\ prompt = [names |-> <<>>, weather |-> <<>>]
    /\ generated_message = <<>>
    /\ final_message = <<>>
    /\ run_result = "pending"
    /\ serve_process = "none"
    /\ listener = "none"
    /\ shutdown = "open"
    /\ selected = "none"
    /\ exit_code = NotExited
    /\ trace = <<>>

Init ==
    /\ PipelineInit
    /\ fnPc = "idle" /\ arg = <<>> /\ ret = <<>>

(***************************************************************************)
(* main, up to the call of run                                             *)
(***************************************************************************)
\* a panic of the main task ends the process with status 101
Panic ==
    /\ pc' = "exited"
    /\ exit_code' = ExitPanic

\* dotenv().expect(..)
LoadDotenv ==
    /\ pc = "dotenv"
    /\ \/ /\ pc' = "launch"
          /\ trace' = Append(trace, "dotenv")
          /\ UNCHANGED exit_code
       \/ /\ Panic
          /\ trace' = Append(trace, "dotenv_failed")
    /\ UNCHANGED <<env, runLocals, run_result, serve_process, listenerVars,
                   selected, fnVars>>

\* the launch with its error ignored: main goes on without a subprocess
LaunchServeUnchecked ==
    /\ pc = "launch"
    /\ pc' = "spawn"
    /\ \/ /\ serve_process' = "running"
          /\ trace' = Append(trace, "launch")
       \/ /\ trace' = Append(trace, "launch_failed")
          /\ UNCHANGED serve_process
    /\ UNCHANGED <<env, runLocals, run_result, listenerVars, selected,
                   exit_code, fnVars>>

\* Command::new("ollama").arg("serve")...spawn().expect(..)
LaunchServe ==
    /\ pc = "launch"
    /\ \/ /\ pc' = "spawn"
          /\ serve_process' = "running"
          /\ trace' = Append(trace, "launch")
          /\ UNCHANGED exit_code
       \/ /\ Panic
          /\ trace' = Append(trace, "launch_failed")
          /\ UNCHANGED serve_process
    /\ UNCHANGED <<env, runLocals, run_result, listenerVars, selected, fnVars>>

\* tokio::spawn(async move { .. })
SpawnListener ==
    /\ pc = "spawn"
    /\ pc' = "token"
    /\ listener' = "install"
    /\ UNCHANGED <<env, runLocals, run_result, serve_process, shutdown,
                   selected, exit_code, trace, fnVars>>

(***************************************************************************)
(* run                                                                     *)
(***************************************************************************)
\* `?` on an error: run returns it and main continues after `run().await`
RunFails(err) ==
    /\ run_result' = err
    /\ pc' = "select"

ReadToken ==
    /\ pc = "token"
    /\ trace' = Append(trace, "read_token")
    /\ IF env.token = "missing"
       THEN RunFails("err_token")
       ELSE pc' = "channel" /\ UNCHANGED run_result
    /\ UNCHANGED <<env, runLocals, serve_process, listenerVars, selected,
                   exit_code, fnVars>>

ReadChannelId ==
    /\ pc = "channel"
    /\ trace' = Append(trace, "read_channel")
    /\ IF env.channel = "missing"
       THEN RunFails("err_channel")
       ELSE pc' = "members" /\ UNCHANGED run_result
    /\ UNCHANGED <<env, runLocals, serve_process, listenerVars, selected,
                   exit_code, fnVars>>

ParseMembers ==
    /\ pc = "members"
    /\ trace' = Append(trace, "read_members")
    /\ \E r \in {parse_members(env.members)} :
          IF r.ok
          THEN /\ members' = r.val
               /\ pc' = "weather"
               /\ UNCHANGED run_result
          ELSE /\ RunFails("err_members")
               /\ UNCHANGED members
    /\ UNCHANGED <<env, weather_info, prompt, generated_message, final_message,
                   serve_process, listenerVars, selected, exit_code, fnVars>>

\* get_weather: reqwest::get(url) is sent
WeatherRequest ==
    /\ pc = "weather"
    /\ pc' = "weather_wait"
    /\ trace' = Append(trace, "weather_get")
    /\ UNCHANGED <<env, runLocals, run_result, serve_process, listenerVars,
                   selected, exit_code, fnVars>>

\* the weather lookup with `?` in place of unwrap_or_else
WeatherResponseFatal ==
    /\ pc = "weather_wait"
    /\ \E a \in WeatherAnswers :
          IF a.ok
          THEN /\ weather_info' =
                     <<a.temperature, "C, ",
                       map_weather_code_to_description(a.weathercode)>>
               /\ trace' = Append(trace, "weather_ok")
               /\ pc' = "generate"
               /\ UNCHANGED run_result
          ELSE /\ RunFails("err_weather")
               /\ trace' = Append(trace, "weather_failed")
               /\ UNCHANGED weather_info
    /\ UNCHANGED <<env, members, prompt, generated_message, final_message,
                   serve_process, listenerVars, selected, exit_code, fnVars>>

\* get_weather returns; run substitutes the fallback for an error
WeatherResponse ==
    /\ pc = "weather_wait"
    /\ \E a \in WeatherAnswers :
          /\ weather_info' =
                IF a.ok
                THEN <<a.temperature, "C, ",
                       map_weather_code_to_description(a.weathercode)>>
                ELSE WeatherFallback
          /\ trace' = Append(trace, IF a.ok THEN "weather_ok" ELSE "weather_failed")
    /\ pc' = "generate"
    /\ UNCHANGED <<env, members, prompt, generated_message, final_message,
                   run_result, serve_process, listenerVars, selected,
                   exit_code, fnVars>>

\* generate_greeting: the prompt is built and the request is sent
GenerateRequest ==
    /\ pc = "generate"
    /\ pc' = "generate_wait"
    /\ prompt' = [names |-> [i \in 1..Len(members) |-> members[i][1]],
                  weather |-> weather_info]
    /\ trace' = Append(trace, "generate")
    /\ UNCHANGED <<env, members, weather_info, generated_message,
                   final_message, run_result, serve_process, listenerVars,
                   selected, exit_code, fnVars>>

\* the generation with its error replaced by an empty greeting
GenerateResponseUnchecked ==
    /\ pc = "generate_wait"
    /\ \E a \in GenerateAnswers :
          /\ generated_message' = IF a.ok THEN Trim(a.response) ELSE <<>>
          /\ trace' = Append(trace, IF a.ok THEN "generate_ok" ELSE "generate_failed")
    /\ pc' = "format"
    /\ UNCHANGED <<env, members, weather_info, prompt, final_message,
                   run_result, serve_process, listenerVars, selected,
                   exit_code, fnVars>>

\* generate_greeting returns the trimmed response, or the error
GenerateResponse ==
    /\ pc = "generate_wait"
    /\ \E a \in GenerateAnswers :
          IF a.ok
          THEN /\ generated_message' = Trim(a.response)
               /\ pc' = "format"
               /\ trace' = Append(trace, "generate_ok")
               /\ UNCHANGED run_result
          ELSE /\ RunFails("err_generate")
               /\ trace' = Append(trace, "generate_failed")
               /\ UNCHANGED generated_message
    /\ UNCHANGED <<env, members, weather_info, prompt, final_message,
                   serve_process, listenerVars, selected, exit_code, fnVars>>

FormatMessage ==
    /\ pc = "format"
    /\ final_message' = format_message(members, generated_message)
    /\ pc' = "send"
    /\ UNCHANGED <<env, members, weather_info, prompt, generated_message,
                   run_result, serve_process, listenerVars, selected,
                   exit_code, trace, fnVars>>

\* send_message: the headers are built (HeaderValue::from_str(token)?) and
\* the POST is sent
SendRequest ==
    /\ pc = "send"
    /\ IF env.token = "invalid"
       THEN /\ RunFails("err_header")
            /\ UNCHANGED trace
       ELSE /\ pc' = "send_wait"
            /\ trace' = Append(trace, "chat_post")
            /\ UNCHANGED run_result
    /\ UNCHANGED <<env, runLocals, serve_process, listenerVars, selected,
                   exit_code, fnVars>>

\* send_message returns, and with it run
SendResponse ==
    /\ pc = "send_wait"
    /\ \E a \in SendAnswers :
          /\ run_result' = CASE a = "2xx" -> "ok"
                             [] a = "status_error" -> "err_send_status"
                             [] a = "transport_error" -> "err_send_transport"
          /\ trace' = Append(trace, CASE a = "2xx" -> "send_ok"
                                      [] a = "status_error" -> "send_failed_status"
                                      [] a = "transport_error" -> "send_failed_transport")
    /\ pc' = "select"
    /\ UNCHANGED <<env, runLocals, serve_process, listenerVars, selected,
                   exit_code, fnVars>>

(***************************************************************************)
(* main, after run has returned                                            *)
(***************************************************************************)
\* the receiver resolves once a value was sent or the sender was dropped
ShutdownReady == shutdown \in {"sent", "closed"}

\* select! with the receiver as its only branch
SelectAwaitsSignal ==
    /\ pc = "select"
    /\ ShutdownReady
    /\ selected' = "shutdown"
    /\ trace' = Append(trace, "log_shutdown_signal")
    /\ pc' = "kill"
    /\ UNCHANGED <<env, runLocals, run_result, serve_process, listenerVars,
                   exit_code, fnVars>>

\* tokio::select!: the second branch is an async block that is ready at
\* once, for Ok and for Err alike; when the receiver is ready too, either
\* branch may be taken
Select ==
    /\ pc = "select"
    /\ \/ /\ ShutdownReady
          /\ selected' = "shutdown"
          /\ trace' = Append(trace, "log_shutdown_signal")
       \/ /\ selected' = "terminated"
          /\ trace' = Append(trace, "log_application_terminated")
    /\ pc' = "kill"
    /\ UNCHANGED <<env, runLocals, run_result, serve_process, listenerVars,
                   exit_code, fnVars>>

\* Child::id(): Some until the child was awaited to completion
ServeId == IF serve_process \in {"running", "exited"} THEN Some("pid") ELSE None

\* if serve_process.id().is_some() { let _ = serve_process.kill().await; }
\* kill() signals the child and awaits its exit; its error is discarded
KillServe ==
    /\ pc = "kill"
    /\ IF ServeId.some
       THEN /\ trace' = Append(trace, "kill")
            /\ \/ serve_process' = "reaped"
               \/ UNCHANGED serve_process
       ELSE UNCHANGED <<serve_process, trace>>
    /\ pc' = "return"
    /\ UNCHANGED <<env, runLocals, run_result, listenerVars, selected,
                   exit_code, fnVars>>

\* main returns run_result: Ok gives status 0, Err gives status 1
Return ==
    /\ pc = "return"
    /\ pc' = "exited"
    /\ exit_code' = IF run_result = "ok" THEN ExitSuccess ELSE ExitFailure
    /\ UNCHANGED <<env, runLocals, run_result, serve_process, listenerVars,
                   selected, trace, fnVars>>

(***************************************************************************)
(* The signal task and the environment                                     *)
(***************************************************************************)
\* signal::ctrl_c() registers the handler; .expect(..) panics the task on
\* an error, which drops shutdown_tx
ListenerInstall ==
    /\ pc # "exited"
    /\ listener = "install"
    /\ \/ listener' = "waiting" /\ UNCHANGED shutdown
       \/ listener' = "panicked" /\ shutdown' = "closed"
    /\ UNCHANGED <<pc, env, runLocals, run_result, serve_process, selected,
                   exit_code, trace, fnVars>>

\* an interrupt signal reaches the registered handler: ctrl_c().await
\* resolves.  (A signal that arrives before the handler is registered ends
\* the process by the default disposition, outside the program.)
Interrupt ==
    /\ pc # "exited"
    /\ listener = "waiting"
    /\ listener' = "signalled"
    /\ trace' = Append(trace, "interrupt")
    /\ UNCHANGED <<pc, env, runLocals, run_result, serve_process, shutdown,
                   selected, exit_code, fnVars>>

\* let _ = shutdown_tx.send(());
ListenerSend ==
    /\ pc # "exited"
    /\ listener = "signalled"
    /\ listener' = "done"
    /\ shutdown' = "sent"
    /\ UNCHANGED <<pc, env, runLocals, run_result, serve_process, selected,
                   exit_code, trace, fnVars>>

\* the model server stops by itself (its handle is not awaited)
ServeExits ==
    /\ pc # "exited"
    /\ serve_process = "running"
    /\ serve_process' = "exited"
    /\ UNCHANGED <<pc, env, runLocals, run_result, listenerVars, selected,
                   exit_code, trace, fnVars>>

MainStep ==
    \/ LoadDotenv \/ LaunchServe \/ SpawnListener
    \/ ReadToken \/ ReadChannelId \/ ParseMembers
    \/ WeatherRequest \/ GenerateRequest \/ FormatMessage \/ SendRequest
    \/ Select \/ KillServe \/ Return

ListenerStep == ListenerInstall \/ ListenerSend

Next ==
    \/ LoadDotenv \/ LaunchServe \/ SpawnListener
    \/ ReadToken \/ ReadChannelId \/ ParseMembers
    \/ WeatherRequest \/ WeatherResponse
    \/ GenerateRequest \/ GenerateResponse
    \/ FormatMessage
    \/ SendRequest \/ SendResponse
    \/ Select \/ KillServe \/ Return
    \/ ListenerInstall \/ Interrupt \/ ListenerSend
    \/ ServeExits

Spec == Init /\ [][Next]_vars

\* the runtime keeps running its own tasks; nothing makes a server answer
\* or a signal arrive
FairSpec == Spec /\ WF_vars(MainStep) /\ WF_vars(ListenerStep)

TypeOK ==
    /\ pc \in {"dotenv", "launch", "spawn", "token", "channel", "members",
               "weather", "weather_wait", "generate", "generate_wait",
               "format", "send", "send_wait", "select", "kill", "return",
               "exited"}
    /\ env \in Environments
    /\ run_result \in {"pending", "ok", "err_token", "err_channel",
                       "err_members", "err_generate", "err_header",
                       "err_send_status", "err_send_transport"}
    /\ serve_process \in {"none", "running", "exited", "reaped"}
    /\ listener \in {"none", "install", "waiting", "signalled", "done", "panicked"}
    /\ shutdown \in {"open", "sent", "closed"}
    /\ selected \in {"none", "shutdown", "terminated"}
    /\ exit_code \in {NotExited, ExitSuccess, ExitFailure, ExitPanic}

(***************************************************************************)
(* The pure functions, each called once on an enumerated input             *)
(***************************************************************************)
\* the pipeline stays in its initial state while a function is exercised
PipelineIdle ==
    /\ PipelineInit
    /\ env = [token |-> "missing", channel |-> "missing", members |-> None]

pipelineVars ==
    <<pc, env, runLocals, run_result, serve_process, listenerVars, selected,
      exit_code, trace>>

TextsUpTo(alphabet, n) == UNION {[1..k -> alphabet] : k \in 0..n}

MemberAlphabet == {"a", "1", "+", ","}
AbcThenBobText == AliceAbcText \o <<",">> \o Bob \o <<",", "4", "5", "6">>
\* 18446744073709551616 = u64::MAX + 1
OverflowThenBobText ==
    <<"Z", ",">> \o SubSeq(U64MaxDigits, 1, 19) \o <<"6", ",">> \o Bob \o <<",", "7">>
MemberExamples ==
    { AliceBobText, AliceAbcText, AbcThenBobText, OverflowThenBobText,
      <<"a", ",", "0", "0", "7">>, <<"a", ",", " ", "1">>,
      <<"a", ",", "-", "1">>, <<"a", ",", "1", ",", "b">> }
MemberTexts == TextsUpTo(MemberAlphabet, MaxLen) \cup MemberExamples

InitParse ==
    /\ PipelineIdle
    /\ fnPc = "called"
    /\ arg \in {None} \cup {Some(t) : t \in MemberTexts}
    /\ ret = [ok |-> FALSE, val |-> <<>>]

ApplyParseMembers ==
    /\ fnPc = "called"
    /\ ret' = parse_members(arg)
    /\ fnPc' = "returned"
    /\ UNCHANGED <<arg, pipelineVars>>

SpecParse == InitParse /\ [][ApplyParseMembers]_vars

Names == {Alice, Bob}
RecipientLists ==
    UNION {[1..k -> Names \X (0..MaxId)] : k \in 0..MaxMembers}
        \cup {<< <<Alice, 123>>, <<Bob, 456>> >>, << <<Bob, 1000>> >>}
GeneratedTexts == {GoodMorning, <<>>, <<"H", "i", "\n", "<", "3">>}

InitFormat ==
    /\ PipelineIdle
    /\ fnPc = "called"
    /\ arg \in [members : RecipientLists, generated : GeneratedTexts]
    /\ ret = <<>>

ApplyFormatMessage ==
    /\ fnPc = "called"
    /\ ret' = format_message(arg.members, arg.generated)
    /\ fnPc' = "returned"
    /\ UNCHANGED <<arg, pipelineVars>>

SpecFormat == InitFormat /\ [][ApplyFormatMessage]_vars

\* i32::MAX, and the negative codes down to -i32::MAX
I32Max == 2147483647
WeatherCodes == ((0 - MaxCode)..(100 + MaxCode)) \cup {I32Max, 0 - I32Max}

InitWeather ==
    /\ PipelineIdle
    /\ fnPc = "called"
    /\ arg \in WeatherCodes
    /\ ret = ""

ApplyMapWeatherCode ==
    /\ fnPc = "called"
    /\ ret' = map_weather_code_to_description(arg)
    /\ fnPc' = "returned"
    /\ UNCHANGED <<arg, pipelineVars>>

SpecWeather == InitWeather /\ [][ApplyMapWeatherCode]_vars

(***************************************************************************)
(* Properties of the pure functions                                        *)
(***************************************************************************)
\* decimal digits without a sign and without leading zeros
Canonical(ds) ==
    /\ ds # <<>>
    /\ \A i \in 1..Len(ds) : ds[i] \in Digit
    /\ (Len(ds) > 1 => ds[1] # "0")

\* the text denotes the unsigned 64-bit integer n
Denotes(t, n) ==
    LET ds == IF t # <<>> /\ t[1] = "+" THEN SubSeq(t, 2, Len(t)) ELSE t IN
    /\ ds # <<>>
    /\ \A i \in 1..Len(ds) : ds[i] \in Digit
    /\ DisplayU64(n) = (IF StripZeros(ds) = <<>> THEN <<"0">> ELSE StripZeros(ds))

\* the text is a valid unsigned 64-bit integer
IsU64Text(t) ==
    LET ds == IF t # <<>> /\ t[1] = "+" THEN SubSeq(t, 2, Len(t)) ELSE t IN
    /\ ds # <<>>
    /\ \A i \in 1..Len(ds) : ds[i] \in Digit
    /\ ~ OverflowsU64(ds)

\* the tokens of a text: separator-free pieces that, joined by the
\* separator, give the text back
IsTokenisation(toks, s, sep) ==
    /\ Len(toks) >= 1
    /\ \A j \in 1..Len(toks) : \A i \in 1..Len(toks[j]) : toks[j][i] # sep
    /\ Join(toks, <<sep>>) = s

\* the name/identifier pairs of a token sequence: tokens 2k - 1 and 2k; the
\* well-formed ones have a valid identifier
WellFormedPairs(toks) == {k \in 1..(Len(toks) \div 2) : IsU64Text(toks[2 * k])}
RankIn(k, S) == Cardinality({j \in S : j <= k})

\* C8: parse_members returns exactly the well-formed name/identifier pairs
\* of the text, in input order; an odd trailing token and a pair with an
\* invalid identifier are dropped and nothing else is, wherever they stand;
\* "Alice,123,Bob,456" gives [("Alice",123),("Bob",456)].
ParseMembersKeepsWellFormedPairs ==
    (fnPc = "returned" /\ arg.some) =>
        LET s == arg.val
            toks == Split(s, ",")
            good == WellFormedPairs(toks) IN
        /\ IsTokenisation(toks, s, ",")
        /\ ret.ok
        /\ Len(ret.val) = Cardinality(good)
        /\ \A k \in good :
              /\ ret.val[RankIn(k, good)][1] = toks[2 * k - 1]
              /\ Denotes(toks[2 * k], ret.val[RankIn(k, good)][2])
        /\ (s = AliceBobText => ret.val = << <<Alice, 123>>, <<Bob, 456>> >>)
        /\ (s = AliceAbcText => ret.val = <<>>)
        /\ (s = AbcThenBobText => ret.val = << <<Bob, 456>> >>)
        /\ (s = OverflowThenBobText => ret.val = << <<Bob, 7>> >>)

\* a malformed pair and an odd trailing token around a well-formed pair
ParseMembersWitness ==
    /\ fnPc = "returned" /\ arg.some
    /\ Len(Split(arg.val, ",")) = 5
    /\ WellFormedPairs(Split(arg.val, ",")) = {2}
    /\ Len(ret.val) = 1

\* C9: format_message returns the generated text, one newline, then one
\* mention token "<@id>" per recipient, in collection order, joined by single
\* spaces; [("Alice",123),("Bob",456)] and "Good morning!" give
\* "Good morning!\n<@123> <@456>".
FormatMessageIsOrderPreserving ==
    fnPc = "returned" =>
        LET g == arg.generated
            ms == arg.members
            n == Len(g) IN
        /\ Len(ret) > n
        /\ SubSeq(ret, 1, n) = g
        /\ ret[n + 1] = "\n"
        /\ LET rest == SubSeq(ret, n + 2, Len(ret)) IN
           /\ (ms = <<>> => rest = <<>>)
           /\ (ms # <<>> => /\ Len(Split(rest, " ")) = Len(ms)
                            /\ IsTokenisation(Split(rest, " "), rest, " "))
           /\ \A i \in 1..Len(ms) :
                 LET t == Split(rest, " ")[i] IN
                 /\ Len(t) >= 4
                 /\ t[1] = "<" /\ t[2] = "@" /\ t[Len(t)] = ">"
                 /\ Canonical(SubSeq(t, 3, Len(t) - 1))
                 /\ DecValue(SubSeq(t, 3, Len(t) - 1), 0) = ms[i][2]
        /\ ((ms = << <<Alice, 123>>, <<Bob, 456>> >> /\ g = GoodMorning) =>
               ret = GoodMorning \o <<"\n", "<", "@", "1", "2", "3", ">", " ",
                                      "<", "@", "4", "5", "6", ">">>)

FormatMessageWitness ==
    /\ fnPc = "returned"
    /\ arg.members = << <<Alice, 123>>, <<Bob, 456>> >>
    /\ arg.generated = GoodMorning
    /\ Len(ret) = Len(GoodMorning) + 14

\* the range table of the weather codes
WeatherTable ==
    { <<{0}, "clear sky">>, <<1..3, "partly cloudy">>, <<{45, 48}, "fog">>,
      <<51..57, "drizzle">>, <<61..67, "rain">>, <<71..77, "snow">>,
      <<80..82, "showers">>, <<{95, 96, 99}, "thunderstorm">> }

\* C10: map_weather_code_to_description returns the description of the row
\* of the range table that holds the code, and "unknown weather" for a code
\* in no row (negative codes and gaps such as 14, 46, 97 included).
WeatherCodeFollowsTable ==
    fnPc = "returned" =>
        /\ \A row \in WeatherTable : arg \in row[1] => ret = row[2]
        /\ ((\A row \in WeatherTable : arg \notin row[1]) => ret = "unknown weather")
        /\ (arg = 2 => ret = "partly cloudy")
        /\ (arg = 63 => ret = "rain")
        /\ (arg = 96 => ret = "thunderstorm")
        /\ (arg \in {14, 46, 97, 0 - 1, I32Max} => ret = "unknown weather")

WeatherCodeWitness ==
    fnPc = "returned" /\ arg = 3 /\ ret = "partly cloudy"

(***************************************************************************)
(* Properties of the orchestration                                         *)
(***************************************************************************)
PipelineOps ==
    {"read_token", "read_channel", "read_members", "weather_get", "generate",
     "chat_post"}
RunFinished == run_result # "pending"
Exited == pc = "exited"

\* C1: when an interrupt arrives after the launch and before run has
\* completed, the kill of the subprocess is issued exactly once: it is
\* issued, and it is never issued a second time.
InterruptKillsExactlyOnce ==
    /\ [](Count("kill") <= 1)
    /\ ((Did("interrupt") /\ ~ RunFinished) ~> (Count("kill") = 1))

\* C2: an interrupt always leads to the termination of the subprocess, also
\* when the pipeline is blocked and never completes: the top level does not
\* wait for run.
InterruptLeadsToTermination ==
    Did("interrupt") ~> (pc \in {"kill", "return", "exited"} /\ Did("kill"))

\* C3: when the interrupt branch of select! was taken, the process exits
\* with status zero, whatever the outcome of the pipeline.
SignalDrivenExitIsSuccess ==
    (Exited /\ selected = "shutdown") => exit_code = ExitSuccess

\* C4: once the subprocess is launched, every way run can finish is followed
\* by the kill of the subprocess and then by the exit of the process, with
\* or without an interrupt; the process neither exits nor blocks with the
\* kill skipped.
TeardownFollowsPipeline ==
    /\ [](RunFinished /\ pc \in {"return", "exited"} => Count("kill") = 1)
    /\ (RunFinished ~> (Exited /\ Count("kill") = 1))

\* a send failure and no interrupt: the subprocess was killed before the exit
TeardownWitness ==
    /\ Exited /\ run_result = "err_send_status"
    /\ ~ Did("interrupt")
    /\ Count("kill") = 1 /\ serve_process = "reaped"

\* C5: when the generation fails, run returns that error, the process exits
\* with a non-zero status and the chat POST is never issued; the chat POST is
\* issued only after a successful generation.
GenerationFailureSkipsSend ==
    /\ Did("generate_failed") =>
          /\ run_result = "err_generate"
          /\ ~ Did("chat_post")
          /\ (Exited => exit_code # ExitSuccess)
    /\ Did("chat_post") => Precedes("generate_ok", "chat_post")

GenerationFailureWitness ==
    Exited /\ Did("generate_failed") /\ exit_code = ExitFailure

\* what run returns, from the configuration, the generation and the send
ResultOfRun ==
    IF env.token = "missing" THEN "err_token"
    ELSE IF env.channel = "missing" THEN "err_channel"
    ELSE IF ~ env.members.some THEN "err_members"
    ELSE IF Did("generate_failed") THEN "err_generate"
    ELSE IF env.token = "invalid" THEN "err_header"
    ELSE IF Did("send_ok") THEN "ok"
    ELSE IF Did("send_failed_status") THEN "err_send_status"
    ELSE IF Did("send_failed_transport") THEN "err_send_transport"
    ELSE "pending"

\* C6: when the weather lookup fails, run goes on: the fallback phrase is
\* the weather string, the generation request is the next step and carries
\* it, and what run returns depends on the configuration, the generation
\* and the send only.
WeatherFailureIsNotFatal ==
    /\ Did("weather_failed") =>
          /\ weather_info = WeatherFallback
          /\ \/ pc = "generate"
             \/ Did("generate") /\ prompt.weather = WeatherFallback
    /\ RunFinished => run_result = ResultOfRun

WeatherFailureWitness ==
    /\ Did("weather_failed") /\ run_result = "ok"
    /\ prompt.weather = WeatherFallback

\* C7: no pipeline step happens before a successful launch, and a failed
\* launch ends the process at once with a failing status, without any
\* pipeline step and without a kill.
LaunchPrecedesPipeline ==
    /\ \A op \in PipelineOps : Did(op) => Precedes("launch", op)
    /\ Did("launch_failed") =>
          /\ Exited /\ exit_code \notin {NotExited, ExitSuccess}
          /\ \A op \in PipelineOps : ~ Did(op)
          /\ ~ Did("kill") /\ ~ Did("launch")
          /\ serve_process = "none"

LaunchFailureWitness ==
    Did("launch_failed") /\ Exited /\ exit_code = ExitPanic

====
